---- MODULE Spec2Model ----
(***************************************************************************)
(* A model of hypercore-crypto (src/index.js): the domain-separated tree   *)
(* hashes, the namespace derivation, the Schnorr signature over a prime    *)
(* order group and the ephemeral-key encryption.                           *)
(*                                                                         *)
(* Buffers are sequences of byte symbols.  A symbol is either a raw byte,  *)
(* a byte of a SHA-256 digest (named by the bytes that were hashed and its *)
(* position, so that the hash is injective) or an uninitialised byte of    *)
(* an allocUnsafe buffer.  The group ristretto255 is scaled down to the    *)
(* subgroup of prime order 5 of the integers modulo 11; every buffer       *)
(* length of the code (32, 33, 64, 8) is kept.                             *)
(***************************************************************************)
EXTENDS Integers, Sequences, FiniteSets, TLC

VARIABLES
    keys,     \* the key pairs keyPair / encryptionKeyPair have returned
    signed,   \* the last call of sign: its message, key and outcome
    checked,  \* the last call of verify or validateKeyPair
    sealed,   \* the last call of encrypt
    opened,   \* the last call of decrypt
    hashed,   \* the last call of data, parent, tree or hash
    merkle,   \* a leaf, a parent and a root hashed one after the other
    spaces    \* the last call of namespace

vars == <<keys, signed, checked, sealed, opened, hashed, merkle, spaces>>

(***************************************************************************)
(* Bounds of the model.                                                    *)
(***************************************************************************)
MaxKeys == 2      \* key pairs a session holds
MaxRand == 4      \* random / seed strings are LE32(0..MaxRand)
MaxMsgLen == 1    \* messages have 0..MaxMsgLen bytes
MaxMsgByte == 2   \* each byte of a message is in 0..MaxMsgByte
MaxEnc == 9       \* attacker supplied 32-byte fields are LE32(0..MaxEnc)
MaxIndex == 1     \* a tree node's index is in 0..MaxIndex
MaxSize == 1      \* a tree node's size is in -1..MaxSize
MaxHashByte == 1  \* a 32-byte node hash is alloc(32, 0..MaxHashByte)
MaxRoots == 2     \* tree is called with 0..MaxRoots roots
MaxChunks == 3    \* hash is called with 0..MaxChunks chunks
MaxId == 1        \* namespace ids are 0..MaxId, 255 and 256..256+MaxId
MaxIds == 2       \* namespace is called with a list of 0..MaxIds ids
MaxCount == 3     \* or with a count in 0..MaxCount

(***************************************************************************)
(* Byte symbols and buffers (b4a / Uint8Array).                            *)
(***************************************************************************)
BYTE == 256

Raw(v) == [h |-> 0, pre |-> <<>>, i |-> v % BYTE]

DigestByte(fed, j) == [h |-> 1, pre |-> fed, i |-> j]

Uninit == [h |-> 2, pre |-> <<>>, i |-> 0]

\* b4a.alloc(n, v)
alloc(n, v) == [j \in 1..n |-> Raw(v)]

\* b4a.allocUnsafe(n), b4a.allocUnsafeSlow(n)
allocUnsafe(n) == [j \in 1..n |-> Uninit]

\* buf.subarray(start, end), zero based, end exclusive, clamped to the buffer
subarray(buf, start, end) ==
    LET e == IF end > Len(buf) THEN Len(buf) ELSE end
    IN  IF start >= e THEN <<>> ELSE SubSeq(buf, start + 1, e)

\* target.set(source, offset): the caller has checked that the source fits
set(target, source, offset) ==
    [j \in 1..Len(target) |->
        IF j > offset /\ j <= offset + Len(source) THEN source[j - offset]
        ELSE target[j]]

\* b4a.equals
equals(a, b) == a = b

\* the bytes of a small number, little endian, in 32 bytes
LE32(v) == [j \in 1..32 |-> IF j = 1 THEN Raw(v) ELSE Raw(0)]

\* the number a 32-byte little endian string holds, TooBig when it is 256 or
\* more (every scalar and every point encoding of the scaled group is below)
TooBig == 0 - 2

FromLE32(buf) ==
    IF /\ Len(buf) = 32
       /\ buf[1].h = 0
       /\ \A j \in 2..32 : buf[j] = Raw(0)
    THEN buf[1].i
    ELSE TooBig

(***************************************************************************)
(* sha256 of @noble/hashes: create, update, digest.  The digest of the     *)
(* bytes fed is 32 symbols that name those bytes.                          *)
(***************************************************************************)
DIGEST_LEN == 32

sha256_create == <<>>

sha256_update(state, chunk) == state \o chunk

sha256_digest(state) == [j \in 1..DIGEST_LEN |-> DigestByte(state, j)]

(***************************************************************************)
(* The group: ristretto255 scaled to the order-5 subgroup of Z_11^*.       *)
(* Point addition is multiplication modulo P, scalar multiplication is     *)
(* exponentiation; Throw stands for a raised exception.                    *)
(***************************************************************************)
P == 11
ORDER == 5
BASE == 4
ZERO == 1
Throw == 0 - 1

RECURSIVE Pow(_, _)
Pow(pt, n) == IF n = 0 THEN ZERO ELSE (pt * Pow(pt, n - 1)) % P

Points == {Pow(BASE, n) : n \in 0..(ORDER - 1)}

\* Point.multiply(scalar): noble rejects every scalar outside 1..ORDER-1
multiply(pt, scalar) ==
    IF pt = Throw \/ scalar = Throw THEN Throw
    ELSE IF scalar < 1 \/ scalar >= ORDER THEN Throw
    ELSE Pow(pt, scalar)

\* Point.add
add(p1, p2) == IF p1 = Throw \/ p2 = Throw THEN Throw ELSE (p1 * p2) % P

\* Point.toBytes: as in ristretto255 the identity is the all-zero string
Point_toBytes(pt) == LE32(pt - 1)

\* Point.fromBytes: throws unless the bytes are 32 and encode a group element
Point_fromBytes(bytes) ==
    IF Len(bytes) # 32 THEN Throw
    ELSE IF FromLE32(bytes) = TooBig THEN Throw
    ELSE IF (FromLE32(bytes) + 1) \in Points THEN FromLE32(bytes) + 1
    ELSE Throw

\* Point.Fn.toBytes
Fn_toBytes(scalar) == LE32(scalar)

\* Point.Fn.fromBytes: throws unless the bytes are 32 and below the order
Fn_fromBytes(bytes) ==
    IF Len(bytes) # 32 THEN Throw
    ELSE IF FromLE32(bytes) = TooBig THEN Throw
    ELSE IF FromLE32(bytes) < ORDER THEN FromLE32(bytes)
    ELSE Throw

\* Point.Fn.add, Point.Fn.mul
Fn_add(a, b) == (a + b) % ORDER
Fn_mul(a, b) == (a * b) % ORDER

(***************************************************************************)
(* ristretto255_hasher.hashToScalar: a deterministic map of a buffer onto  *)
(* 0..ORDER-1, here a position-weighted checksum of its symbols.           *)
(***************************************************************************)
MIX == 251

RECURSIVE Mix(_)
RECURSIVE MixFrom(_, _)
SymVal(sym) ==
    IF sym.h = 0 THEN sym.i
    ELSE IF sym.h = 1 THEN (sym.i + 7 * Mix(sym.pre)) % MIX
    ELSE 0

MixFrom(buf, j) ==
    IF j > Len(buf) THEN 0
    ELSE (j * SymVal(buf[j]) + MixFrom(buf, j + 1)) % MIX

\* a whole digest is mixed through the bytes it names, once
IsDigest(buf) ==
    /\ Len(buf) = DIGEST_LEN
    /\ buf[1].h = 1
    /\ buf = sha256_digest(buf[1].pre)

Mix(buf) ==
    IF IsDigest(buf) THEN (3 + 7 * Mix(buf[1].pre)) % MIX
    ELSE (Len(buf) + MixFrom(buf, 1)) % MIX

hashToScalar(msg) == Mix(msg) % ORDER

(***************************************************************************)
(* Inputs.                                                                 *)
(***************************************************************************)
RandomBytes == {LE32(v) : v \in 0..MaxRand}

Messages == {[j \in 1..n |-> Raw(v)] : n \in 0..MaxMsgLen, v \in 0..MaxMsgByte}

NoSeed == [given |-> FALSE, bytes |-> <<>>]
Seeds == {NoSeed} \cup {[given |-> TRUE, bytes |-> b] : b \in RandomBytes}

(***************************************************************************)
(* keyPair(seed).  rnd is what nobleRandomBytes(32) returns.               *)
(***************************************************************************)
keyPair(seed, rnd) ==
    LET privateKeyScalar == IF seed.given THEN hashToScalar(seed.bytes)
                            ELSE hashToScalar(rnd)
        publicKeyPoint == multiply(BASE, privateKeyScalar)
        privateKeyBytes == Fn_toBytes(privateKeyScalar)
        publicKeyBytes == Point_toBytes(publicKeyPoint)
    IN  IF publicKeyPoint = Throw
        THEN [threw |-> TRUE, publicKey |-> <<>>, secretKey |-> <<>>]
        ELSE [threw |-> FALSE,
              publicKey |-> publicKeyBytes,
              secretKey |-> privateKeyBytes \o publicKeyBytes]

(***************************************************************************)
(* validateKeyPair(keyPair): the body of the try block, then the catch.    *)
(***************************************************************************)
validateKeyPair_try(kp) ==
    LET pk == allocUnsafe(32)
        privateKey == subarray(kp.secretKey, 0, 32)
        privateKeyScalar == Fn_fromBytes(privateKey)
        publicKeyPoint == multiply(BASE, privateKeyScalar)
    IN  IF privateKeyScalar = Throw \/ publicKeyPoint = Throw THEN "throw"
        ELSE IF equals(set(pk, Point_toBytes(publicKeyPoint), 0), kp.publicKey)
             THEN "true"
             ELSE "false"

\* validateKeyPair without its catch
validateKeyPair_uncaught(kp) == validateKeyPair_try(kp)

validateKeyPair(kp) ==
    IF validateKeyPair_try(kp) = "throw" THEN "false"
    ELSE validateKeyPair_try(kp)

(***************************************************************************)
(* sign(message, secretKey).  rnd is what nobleRandomBytes(32) returns.    *)
(***************************************************************************)
challenge(R_bytes, publicKey, message) ==
    sha256_digest(
        sha256_update(
            sha256_update(sha256_update(sha256_create, R_bytes), publicKey),
            message))

sign(message, secretKey, rnd) ==
    LET signature == allocUnsafe(64)
        privateKey == subarray(secretKey, 0, 32)
        nonceScalar == hashToScalar(rnd)
        R == multiply(BASE, nonceScalar)
        R_bytes == Point_toBytes(R)
        privateKeyScalar == Fn_fromBytes(privateKey)
        publicKeyPoint == multiply(BASE, privateKeyScalar)
        publicKey == Point_toBytes(publicKeyPoint)
        c == challenge(R_bytes, publicKey, message)
        c_scalar == hashToScalar(c)
        s == Fn_add(nonceScalar, Fn_mul(c_scalar, privateKeyScalar))
    IN  IF R = Throw \/ privateKeyScalar = Throw \/ publicKeyPoint = Throw
        THEN [threw |-> TRUE, signature |-> <<>>]
        ELSE [threw |-> FALSE,
              signature |-> set(set(signature, R_bytes, 0), Fn_toBytes(s), 32)]

(***************************************************************************)
(* verify(message, signature, publicKey): the two length checks, the body  *)
(* of the try block, then the catch.                                       *)
(***************************************************************************)
verify_try(message, signature, publicKey) ==
    LET R_bytes == subarray(signature, 0, 32)
        s_bytes == subarray(signature, 32, 64)
        R == Point_fromBytes(R_bytes)
        PK == Point_fromBytes(publicKey)
        s == Fn_fromBytes(s_bytes)
        c == challenge(R_bytes, publicKey, message)
        c_scalar == hashToScalar(c)
        sG == multiply(BASE, s)
        cP == multiply(PK, c_scalar)
        R_plus_cP == add(R, cP)
    IN  IF R = Throw \/ PK = Throw \/ s = Throw \/ sG = Throw \/ cP = Throw
        THEN "throw"
        ELSE IF sG = R_plus_cP THEN "true" ELSE "false"

\* verify without its catch
verify_uncaught(message, signature, publicKey) ==
    IF Len(signature) # 64 THEN "false"
    ELSE IF Len(publicKey) # 32 THEN "false"
    ELSE verify_try(message, signature, publicKey)

verify(message, signature, publicKey) ==
    IF Len(signature) # 64 THEN "false"
    ELSE IF Len(publicKey) # 32 THEN "false"
    ELSE IF verify_try(message, signature, publicKey) = "throw" THEN "false"
    ELSE verify_try(message, signature, publicKey)

(***************************************************************************)
(* encrypt(message, publicKey), decrypt(ciphertext, keyPair) and           *)
(* encryptionKeyPair(seed).  rnd is what nobleRandomBytes(32) returns.     *)
(***************************************************************************)
RECURSIVE BitXor(_, _)
BitXor(a, b) ==
    IF a = 0 /\ b = 0 THEN 0
    ELSE (((a % 2) + (b % 2)) % 2) + 2 * BitXor(a \div 2, b \div 2)

\* message[i] ^ key[i % 32], zero based, stored into a Uint8Array
xor(text, key) ==
    [j \in 1..Len(text) |-> Raw(BitXor(text[j].i, key[((j - 1) % 32) + 1].i))]

encrypt(message, publicKey, rnd) ==
    LET ephemeralScalar == hashToScalar(rnd)
        ephemeralPrivateKey == Fn_toBytes(ephemeralScalar)
        ephemeralPrivateKeyScalar == Fn_fromBytes(ephemeralPrivateKey)
        ephemeralPublicKeyPoint == multiply(BASE, ephemeralPrivateKeyScalar)
        ephemeralPublicKey == Point_toBytes(ephemeralPublicKeyPoint)
        publicKeyPoint == Point_fromBytes(publicKey)
        sharedSecretPoint == multiply(publicKeyPoint, ephemeralPrivateKeyScalar)
        sharedSecret == Point_toBytes(sharedSecretPoint)
        key == subarray(sharedSecret, 0, 32)
        encrypted == xor(message, key)
    IN  IF \/ ephemeralPublicKeyPoint = Throw
           \/ publicKeyPoint = Throw
           \/ sharedSecretPoint = Throw
        THEN [threw |-> TRUE, ciphertext |-> <<>>]
        ELSE [threw |-> FALSE,
              ciphertext |-> ephemeralPublicKey \o encrypted]

Null == [null |-> TRUE, plaintext |-> <<>>]

\* decrypt reading key[i] where the code reads key[i % 32]: past the key the
\* read is undefined and the byte stays as it is
decrypt_try_unwrapped(ciphertext, kp) ==
    LET encrypted == subarray(ciphertext, 32, Len(ciphertext))
        privateKeyScalar == Fn_fromBytes(subarray(kp.secretKey, 0, 32))
        sharedSecretPoint ==
            multiply(Point_fromBytes(subarray(ciphertext, 0, 32)),
                     privateKeyScalar)
        key == subarray(Point_toBytes(sharedSecretPoint), 0, 32)
    IN  IF \/ Point_fromBytes(subarray(ciphertext, 0, 32)) = Throw
           \/ privateKeyScalar = Throw
           \/ sharedSecretPoint = Throw
        THEN Null
        ELSE [null |-> FALSE,
              plaintext |->
                  [j \in 1..Len(encrypted) |->
                      IF j <= 32 THEN Raw(BitXor(encrypted[j].i, key[j].i))
                      ELSE encrypted[j]]]

decrypt_try(ciphertext, kp) ==
    LET ephemeralPublicKey == subarray(ciphertext, 0, 32)
        encrypted == subarray(ciphertext, 32, Len(ciphertext))
        ephemeralPublicKeyPoint == Point_fromBytes(ephemeralPublicKey)
        privateKey == subarray(kp.secretKey, 0, 32)
        privateKeyScalar == Fn_fromBytes(privateKey)
        sharedSecretPoint == multiply(ephemeralPublicKeyPoint, privateKeyScalar)
        sharedSecret == Point_toBytes(sharedSecretPoint)
        key == subarray(sharedSecret, 0, 32)
    IN  IF \/ ephemeralPublicKeyPoint = Throw
           \/ privateKeyScalar = Throw
           \/ sharedSecretPoint = Throw
        THEN Null
        ELSE [null |-> FALSE, plaintext |-> xor(encrypted, key)]

decrypt(ciphertext, kp) ==
    IF Len(ciphertext) < 32 THEN Null ELSE decrypt_try(ciphertext, kp)

encryptionKeyPair(seed, rnd) ==
    LET scalar == IF seed.given THEN hashToScalar(seed.bytes)
                  ELSE hashToScalar(rnd)
        privateKey == Fn_toBytes(scalar)
        privateKeyScalar == Fn_fromBytes(privateKey)
        publicKeyPoint == multiply(BASE, privateKeyScalar)
    IN  IF publicKeyPoint = Throw
        THEN [threw |-> TRUE, publicKey |-> <<>>, secretKey |-> <<>>]
        ELSE [threw |-> FALSE,
              publicKey |-> Point_toBytes(publicKeyPoint),
              secretKey |-> privateKey]

(***************************************************************************)
(* compact-encoding: c.encode(c.uint64, n).  uint32.encode stores n,       *)
(* n >>> 8, n >>> 16, n >>> 24 into a Uint8Array; uint64.encode validates  *)
(* n >= 0, then encodes n and floor(n / 2^32).                             *)
(***************************************************************************)
uint32_encode(n) ==
    <<Raw(n), Raw(n \div 256), Raw(n \div 65536), Raw((n \div 65536) \div 256)>>

c_encode_uint64(n) ==
    IF n < 0 THEN [threw |-> TRUE, bytes |-> <<>>]
    ELSE [threw |-> FALSE,
          bytes |-> uint32_encode(n) \o uint32_encode((n \div 65536) \div 65536)]

(***************************************************************************)
(* The tree hashes.  Each returns what it fed to sha256 and its result.    *)
(***************************************************************************)
\* a leaf type byte that is the parent type byte
LEAF_TYPE_shared == <<Raw(1)>>

LEAF_TYPE == <<Raw(0)>>
PARENT_TYPE == <<Raw(1)>>
ROOT_TYPE == <<Raw(2)>>

NoOut == [given |-> FALSE, buf |-> <<>>]

Thrown == [threw |-> TRUE, feed |-> <<>>, out |-> <<>>]

\* const digest = hash.digest(); out.set(digest); return out
Digested(state, out) ==
    IF Len(out) < DIGEST_LEN THEN Thrown
    ELSE [threw |-> FALSE, feed |-> state,
          out |-> set(out, sha256_digest(state), 0)]

data(d) ==
    LET out == allocUnsafe(32)
        h1 == sha256_update(sha256_create, LEAF_TYPE)
        h2 == sha256_update(h1, c_encode_uint64(Len(d)).bytes)
        h3 == sha256_update(h2, d)
    IN  Digested(h3, out)

\* parent hashing its arguments in the order given
parent_unordered(a, b) ==
    LET out == allocUnsafe(32)
        size == c_encode_uint64(a.size + b.size)
        h1 == sha256_update(sha256_create, PARENT_TYPE)
        h2 == sha256_update(h1, size.bytes)
        h3 == sha256_update(h2, a.hash)
        h4 == sha256_update(h3, b.hash)
    IN  IF size.threw THEN Thrown ELSE Digested(h4, out)

parent(a, b) ==
    LET lo == IF a.index > b.index THEN b ELSE a
        hi == IF a.index > b.index THEN a ELSE b
        out == allocUnsafe(32)
        size == c_encode_uint64(lo.size + hi.size)
        h1 == sha256_update(sha256_create, PARENT_TYPE)
        h2 == sha256_update(h1, size.bytes)
        h3 == sha256_update(h2, lo.hash)
        h4 == sha256_update(h3, hi.hash)
    IN  IF size.threw THEN Thrown ELSE Digested(h4, out)

\* the loop of tree over roots[i..], from the hash state reached so far
RECURSIVE tree_loop(_, _, _)
tree_loop(roots, i, state) ==
    IF i > Len(roots) THEN [threw |-> FALSE, state |-> state]
    ELSE LET r == roots[i]
             index == c_encode_uint64(r.index)
             size == c_encode_uint64(r.size)
             h1 == sha256_update(state, r.hash)
             h2 == sha256_update(h1, index.bytes)
             h3 == sha256_update(h2, size.bytes)
         IN  IF index.threw \/ size.threw
             THEN [threw |-> TRUE, state |-> state]
             ELSE tree_loop(roots, i + 1, h3)

tree(roots, out) ==
    LET o == IF out.given THEN out.buf ELSE allocUnsafe(32)
        h == tree_loop(roots, 1, sha256_update(sha256_create, ROOT_TYPE))
    IN  IF h.threw THEN Thrown ELSE Digested(h.state, o)

\* a loop of hash that starts a new hash state at every chunk
RECURSIVE hash_loop_restarted(_, _, _)
hash_loop_restarted(chunks, i, state) ==
    IF i > Len(chunks) THEN state
    ELSE hash_loop_restarted(chunks, i + 1,
                             sha256_update(sha256_create, chunks[i]))

\* the loop of hash over the chunks
RECURSIVE hash_loop(_, _, _)
hash_loop(chunks, i, state) ==
    IF i > Len(chunks) THEN state
    ELSE hash_loop(chunks, i + 1, sha256_update(state, chunks[i]))

\* hash(data, out): data is [isArray, items], a buffer being one item
hash(d, out) ==
    LET o == IF out.given THEN out.buf ELSE allocUnsafe(32)
        chunks == IF d.isArray THEN d.items ELSE <<d.items[1]>>
    IN  Digested(hash_loop(chunks, 1, sha256_create), o)

\* b4a.concat
RECURSIVE concat(_)
concat(list) == IF list = <<>> THEN <<>> ELSE Head(list) \o concat(Tail(list))

(***************************************************************************)
(* namespace(name, count): count is a number, [isNumber |-> TRUE, n], or a *)
(* list of ids.  ns is the 33-byte scratch buffer, buf the slab the        *)
(* entries are views of.                                                   *)
(***************************************************************************)
range(count) == [j \in 1..count |-> j - 1]

\* a loop of namespace that derives each entry from the entry before it
RECURSIVE namespace_loop_chained(_, _, _, _)
namespace_loop_chained(ids, i, ns, buf) ==
    IF i > Len(ids) THEN buf
    ELSE LET ns1 == [ns EXCEPT ![33] = Raw(ids[i])]
             itemDigest == sha256_digest(sha256_update(sha256_create, ns1))
         IN  namespace_loop_chained(ids, i + 1, set(ns1, itemDigest, 0),
                                    set(buf, itemDigest, 32 * (i - 1)))

RECURSIVE namespace_loop(_, _, _, _)
namespace_loop(ids, i, ns, buf) ==
    IF i > Len(ids) THEN buf
    ELSE LET ns1 == [ns EXCEPT ![33] = Raw(ids[i])]
             itemDigest == sha256_digest(sha256_update(sha256_create, ns1))
         IN  namespace_loop(ids, i + 1, ns1, set(buf, itemDigest, 32 * (i - 1)))

namespace(name, count) ==
    LET ids == IF count.isNumber THEN range(count.n) ELSE count.ids
        buf == allocUnsafe(32 * Len(ids))
        ns == allocUnsafe(33)
        nameDigest == sha256_digest(sha256_update(sha256_create, name))
        filled == namespace_loop(ids, 1, set(ns, nameDigest, 0), buf)
    IN  [threw |-> FALSE,
         list |-> [i \in 1..Len(ids) |-> subarray(filled, 32 * (i - 1), 32 * i)]]

(***************************************************************************)
(* The values of the variables before any call.                            *)
(***************************************************************************)
NoSigned == [state |-> "none", message |-> <<>>, secretKey |-> <<>>,
             publicKey |-> <<>>, signature |-> <<>>]

NoChecked == [op |-> "none", message |-> <<>>, signature |-> <<>>,
              publicKey |-> <<>>, secretKey |-> <<>>, res |-> "none"]

NoSealed == [state |-> "none", message |-> <<>>, publicKey |-> <<>>,
             secretKey |-> <<>>, ephemeralScalar |-> 0, ciphertext |-> <<>>]

NoOpened == [op |-> "none", secretKey |-> <<>>, null |-> FALSE,
             plaintext |-> <<>>]

NoHashed == [op |-> "none", nodes |-> <<>>, isArray |-> FALSE, bufs |-> <<>>,
             outArg |-> NoOut, threw |-> FALSE, feed |-> <<>>, out |-> <<>>]
NoMerkle == [op |-> "none", leaf |-> Thrown, par |-> Thrown, root |-> Thrown]

NoSpaces == [op |-> "none", name |-> <<>>, isNumber |-> FALSE, n |-> 0,
             ids |-> <<>>, threw |-> FALSE, list |-> <<>>]

(***************************************************************************)
(* Nothing has been called.                                                *)
(***************************************************************************)
Init ==
    /\ keys = {}
    /\ signed = NoSigned
    /\ checked = NoChecked
    /\ sealed = NoSealed
    /\ opened = NoOpened
    /\ hashed = NoHashed
    /\ merkle = NoMerkle
    /\ spaces = NoSpaces

(***************************************************************************)
(* A signing session, as in test('sign'): key pairs are generated, a       *)
(* message is signed with one of them, and the signature is verified.      *)
(***************************************************************************)
keyPairCall ==
    /\ Cardinality(keys) < MaxKeys
    /\ signed.state = "none"
    /\ checked.op = "none"
    /\ sealed.state = "none"
    /\ \E seed \in Seeds, rnd \in RandomBytes :
        LET r == keyPair(seed, rnd)
        IN  /\ ~r.threw
            /\ keys' = keys \cup {[publicKey |-> r.publicKey,
                                   secretKey |-> r.secretKey]}
            /\ UNCHANGED <<signed, checked, sealed, opened, hashed, merkle, spaces>>

signCall ==
    /\ signed.state = "none"
    /\ \E kp \in keys, message \in Messages, rnd \in RandomBytes :
        LET r == sign(message, kp.secretKey, rnd)
        IN  /\ signed' = [state |-> IF r.threw THEN "throw" ELSE "ok",
                          message |-> message,
                          secretKey |-> kp.secretKey,
                          publicKey |-> kp.publicKey,
                          signature |-> r.signature]
            /\ UNCHANGED <<keys, checked, sealed, opened, hashed, merkle, spaces>>

\* verify what was signed, or the all-zero signature, against a held key
verifyCall ==
    /\ signed.state = "ok"
    /\ checked.op = "none"
    /\ \E kp \in keys, signature \in {signed.signature, alloc(64, 0)} :
        /\ checked' = [op |-> "verify",
                       message |-> signed.message,
                       signature |-> signature,
                       publicKey |-> kp.publicKey,
                       secretKey |-> <<>>,
                       res |-> verify(signed.message, signature, kp.publicKey)]
        /\ UNCHANGED <<keys, signed, sealed, opened, hashed, merkle, spaces>>

SigNext == keyPairCall \/ signCall \/ verifyCall

SpecSig == Init /\ [][SigNext]_vars

\* the challenge and the response of the signature sign has returned
SignedChallenge ==
    hashToScalar(challenge(subarray(signed.signature, 0, 32),
                           signed.publicKey, signed.message))
SignedResponse == Fn_fromBytes(subarray(signed.signature, 32, 64))

\* the call verify(m, sign(m, secretKey), publicKey) of one key pair
VerifiedOwnSignature ==
    /\ signed.state = "ok"
    /\ checked.op = "verify"
    /\ checked.message = signed.message
    /\ checked.signature = signed.signature
    /\ checked.publicKey = signed.publicKey

\* C1: verify(m, sign(m, secretKey), publicKey) is true for every message,
\* every key pair keyPair returns and every nonce sign draws.
C1_SignThenVerify == VerifiedOwnSignature => checked.res = "true"

\* a signature of sign whose challenge is 0 or whose response is 0 went
\* through verify
C1_Witness ==
    /\ VerifiedOwnSignature
    /\ (SignedChallenge = 0 \/ SignedResponse = 0)

\* verify accepts every signature of sign whose challenge and response are
\* both scalars that Point.multiply takes
VerifyAcceptsUnlessZeroScalar ==
    (VerifiedOwnSignature /\ SignedChallenge # 0 /\ SignedResponse # 0)
        => checked.res = "true"

(***************************************************************************)
(* One call of a tree hash: data, parent or tree, as in test('hash leaf'), *)
(* test('hash parent') and test('tree').                                   *)
(***************************************************************************)
Hashes == {alloc(32, v) : v \in 0..MaxHashByte} \cup {<<>>}

Nodes == [index : 0..MaxIndex, size : (0 - 1)..MaxSize, hash : Hashes]

\* the roots a, b, a, ... (n of them)
Roots(a, b, n) == [j \in 1..n |-> IF j % 2 = 1 THEN a ELSE b]

RootLists == {Roots(a, b, n) : a \in Nodes, b \in Nodes, n \in 0..MaxRoots}

Outs == {NoOut, [given |-> TRUE, buf |-> alloc(32, 255)]}

Called(op, nodes, isArray, bufs, outArg, r) ==
    [op |-> op, nodes |-> nodes, isArray |-> isArray, bufs |-> bufs,
     outArg |-> outArg, threw |-> r.threw, feed |-> r.feed, out |-> r.out]

dataCall ==
    /\ hashed.op = "none"
    /\ \E d \in Messages :
        hashed' = Called("data", <<>>, FALSE, <<d>>, NoOut, data(d))
    /\ UNCHANGED <<keys, signed, checked, sealed, opened, merkle, spaces>>

parentCall ==
    /\ hashed.op = "none"
    /\ \E a \in Nodes, b \in Nodes :
        hashed' = Called("parent", <<a, b>>, FALSE, <<>>, NoOut, parent(a, b))
    /\ UNCHANGED <<keys, signed, checked, sealed, opened, merkle, spaces>>

treeCall ==
    /\ hashed.op = "none"
    /\ \E roots \in RootLists, out \in Outs :
        hashed' = Called("tree", roots, FALSE, <<>>, out, tree(roots, out))
    /\ UNCHANGED <<keys, signed, checked, sealed, opened, merkle, spaces>>

TreeNext == dataCall \/ parentCall \/ treeCall

SpecTree == Init /\ [][TreeNext]_vars

\* C3 as stated: parent(a, b) = parent(b, a) for any two nodes, also two
\* nodes of the same index and different hashes.
C3_ParentCommutes ==
    hashed.op = "parent" =>
        LET r == parent(hashed.nodes[2], hashed.nodes[1])
        IN  r.threw = hashed.threw /\ r.out = hashed.out

\* C3 restricted: parent(a, b) = parent(b, a) for two nodes of different
\* indexes (or of equal hashes), and the hash of the node of the smaller
\* index is fed first whatever the order of the arguments.
C3_ParentCommutesOnDistinctIndexes ==
    hashed.op = "parent" =>
        LET a == hashed.nodes[1]
            b == hashed.nodes[2]
            r == parent(b, a)
        IN  /\ (a.index # b.index \/ a.hash = b.hash) =>
                   r.threw = hashed.threw /\ r.out = hashed.out
            /\ (~hashed.threw /\ a.index < b.index) =>
                   subarray(hashed.feed, 9, Len(hashed.feed)) = a.hash \o b.hash
            /\ (~hashed.threw /\ a.index > b.index) =>
                   subarray(hashed.feed, 9, Len(hashed.feed)) = b.hash \o a.hash

\* parent has swapped its arguments, whose hashes differ
C3_Witness ==
    /\ hashed.op = "parent"
    /\ ~hashed.threw
    /\ hashed.nodes[1].index > hashed.nodes[2].index
    /\ hashed.nodes[1].hash # hashed.nodes[2].hash
    /\ Len(hashed.nodes[1].hash) = 32
    /\ Len(hashed.nodes[2].hash) = 32

ValidNode(n) == Len(n.hash) = 32 /\ n.size >= 0 /\ n.index >= 0

\* C8: parent and tree end in an error, and return no digest, when
\* a node's hash is not 32 bytes or its size or index is negative.
C8_InvalidNodeRejected ==
    (/\ hashed.op \in {"parent", "tree"}
     /\ \E j \in 1..Len(hashed.nodes) : ~ValidNode(hashed.nodes[j]))
        => hashed.threw

(***************************************************************************)
(* A leaf, a parent and a root hashed in one session, as the tests of the  *)
(* three tree hashes do one after the other.                               *)
(***************************************************************************)
merkleCall ==
    /\ merkle.op = "none"
    /\ \E d \in Messages, a \in Nodes, b \in Nodes, n \in 0..MaxRoots :
        merkle' = [op |-> "done", leaf |-> data(d), par |-> parent(a, b),
                   root |-> tree(Roots(a, b, n), NoOut)]
    /\ UNCHANGED <<keys, signed, checked, sealed, opened, hashed, spaces>>

DomainNext == merkleCall

SpecDomain == Init /\ [][DomainNext]_vars

\* two results of different tree hashes: what was fed to sha256 differs, and
\* so do the digests
Separated(r1, r2) ==
    (~r1.threw /\ ~r2.threw) => (r1.feed # r2.feed /\ r1.out # r2.out)

\* C4: what data, parent and tree feed to sha256 begins with the type bytes
\* 0, 1 and 2, so the three feeds are pairwise different and a leaf digest,
\* a parent digest and a root digest never coincide.
C4_DomainSeparation ==
    merkle.op = "done" =>
        /\ ~merkle.leaf.threw => merkle.leaf.feed[1] = Raw(0)
        /\ ~merkle.par.threw => merkle.par.feed[1] = Raw(1)
        /\ ~merkle.root.threw => merkle.root.feed[1] = Raw(2)
        /\ Separated(merkle.leaf, merkle.par)
        /\ Separated(merkle.leaf, merkle.root)
        /\ Separated(merkle.par, merkle.root)

\* all three were hashed, the root over no roots at all
C4_Witness ==
    /\ merkle.op = "done"
    /\ ~merkle.leaf.threw
    /\ ~merkle.par.threw
    /\ ~merkle.root.threw
    /\ merkle.root.feed = ROOT_TYPE

(***************************************************************************)
(* One call of hash, as in test('hash'): a list of chunks or one buffer,   *)
(* with or without an out buffer.                                          *)
(***************************************************************************)
RECURSIVE SeqsUpTo(_, _)
SeqsUpTo(S, n) ==
    IF n = 0 THEN {<<>>}
    ELSE SeqsUpTo(S, n - 1) \cup
         {Append(q, x) : q \in {t \in SeqsUpTo(S, n - 1) : Len(t) = n - 1}, x \in S}

hashCall ==
    /\ hashed.op = "none"
    /\ \E isArray \in BOOLEAN, items \in SeqsUpTo(Messages, MaxChunks),
          out \in Outs :
        /\ isArray \/ Len(items) = 1
        /\ hashed' = Called("hash", <<>>, isArray, items, out,
                            hash([isArray |-> isArray, items |-> items], out))
    /\ UNCHANGED <<keys, signed, checked, sealed, opened, merkle, spaces>>

HashNext == hashCall

SpecHash == Init /\ [][HashNext]_vars

\* C7: hash of a list of chunks is hash of their concatenation, and the
\* digest is the same in a caller-supplied out buffer and in a fresh one.
C7_HashOfChunks ==
    hashed.op = "hash" =>
        LET whole == [isArray |-> FALSE, items |-> <<concat(hashed.bufs)>>]
            given == [isArray |-> hashed.isArray, items |-> hashed.bufs]
        IN  /\ ~hashed.threw
            /\ Len(hashed.out) = 32
            /\ \A out \in Outs :
                /\ hash(whole, out).out = hashed.out
                /\ hash(given, out).out = hashed.out

\* hash was called with two different chunks and an out buffer
C7_Witness ==
    /\ hashed.op = "hash"
    /\ hashed.isArray
    /\ Len(hashed.bufs) = 2
    /\ hashed.bufs[1] # <<>>
    /\ hashed.bufs[2] # <<>>
    /\ hashed.bufs[1] # hashed.bufs[2]
    /\ hashed.outArg.given
    /\ ~hashed.threw

(***************************************************************************)
(* One call of namespace, as in test('namespace') and                      *)
(* test('namespace (random access)').                                      *)
(***************************************************************************)
Ids == (0..MaxId) \cup {BYTE - 1} \cup {BYTE + v : v \in 0..MaxId}

Counts ==
    {[isNumber |-> TRUE, n |-> n, ids |-> <<>>] : n \in 0..MaxCount} \cup
    {[isNumber |-> FALSE, n |-> 0, ids |-> ids] : ids \in SeqsUpTo(Ids, MaxIds)}

namespaceCall ==
    /\ spaces.op = "none"
    /\ \E name \in Messages, count \in Counts :
        LET r == namespace(name, count)
        IN  spaces' = [op |-> "namespace", name |-> name,
                       isNumber |-> count.isNumber, n |-> count.n,
                       ids |-> count.ids, threw |-> r.threw, list |-> r.list]
    /\ UNCHANGED <<keys, signed, checked, sealed, opened, hashed, merkle>>

NsNext == namespaceCall

SpecNs == Init /\ [][NsNext]_vars

\* the ids namespace was asked for
SpacesIds == IF spaces.isNumber THEN range(spaces.n) ELSE spaces.ids

\* hash(hash(name) || the single byte id)
Entry(name, id) ==
    sha256_digest(sha256_digest(name) \o <<Raw(id)>>)

\* C6: namespace(name, n).slice(k) is namespace(name, [k, ..., n-1]) for
\* every k < n, and the entry at position i of any call is
\* hash(hash(name) || byte ids[i]), whatever the other ids are.
C6_RandomAccess ==
    spaces.op = "namespace" =>
        /\ ~spaces.threw
        /\ Len(spaces.list) = Len(SpacesIds)
        /\ \A i \in 1..Len(SpacesIds) :
               spaces.list[i] = Entry(spaces.name, SpacesIds[i])
        /\ spaces.isNumber =>
               \A k \in 0..(spaces.n - 1) :
                   LET rest == [j \in 1..(spaces.n - k) |-> k + j - 1]
                       r == namespace(spaces.name, [isNumber |-> FALSE,
                                                    n |-> 0, ids |-> rest])
                   IN  SubSeq(spaces.list, k + 1, spaces.n) = r.list

\* namespace(name, n) was called with n of 3 or more
C6_Witness ==
    /\ spaces.op = "namespace"
    /\ spaces.isNumber
    /\ spaces.n >= 3
    /\ spaces.name # <<>>

\* C9: namespace ends in an error when an id is above 255.
C9_LargeIdRejected ==
    (/\ spaces.op = "namespace"
     /\ \E i \in 1..Len(SpacesIds) : SpacesIds[i] >= BYTE)
        => spaces.threw

(***************************************************************************)
(* One call of verify on bytes an attacker chooses.                        *)
(***************************************************************************)
Fields == {LE32(v) : v \in 0..MaxEnc} \cup {alloc(32, 255)}

\* a buffer, the buffer without its last byte, the buffer with one more
Variants(buf) == {buf, subarray(buf, 0, Len(buf) - 1), buf \o <<Raw(0)>>}

AnySignatures ==
    {<<>>} \cup UNION {Variants(R \o s) : R \in Fields, s \in Fields}

AnyPublicKeys == {<<>>} \cup UNION {Variants(f) : f \in Fields}

verifyAnyCall ==
    /\ checked.op = "none"
    /\ \E message \in Messages, signature \in AnySignatures,
          publicKey \in AnyPublicKeys :
        checked' = [op |-> "verify",
                    message |-> message,
                    signature |-> signature,
                    publicKey |-> publicKey,
                    secretKey |-> <<>>,
                    res |-> verify(message, signature, publicKey)]
    /\ UNCHANGED <<keys, signed, sealed, opened, hashed, merkle, spaces>>

VerifyNext == verifyAnyCall

SpecVerify == Init /\ [][VerifyNext]_vars

\* an s the verifier cannot use: not the encoding of a scalar in 1..ORDER-1
OutOfRange(s_bytes) ==
    Fn_fromBytes(s_bytes) = Throw \/ Fn_fromBytes(s_bytes) = 0

\* C2: verify returns a boolean and never raises, and returns false when the
\* signature is not 64 bytes, the public key is not 32 bytes, R or the public
\* key is no point encoding, or s is out of range (as in the all-zero
\* signature).
C2_VerifyTotal ==
    checked.op = "verify" =>
        /\ checked.res \in {"true", "false"}
        /\ (\/ Len(checked.signature) # 64
            \/ Len(checked.publicKey) # 32
            \/ Point_fromBytes(subarray(checked.signature, 0, 32)) = Throw
            \/ Point_fromBytes(checked.publicKey) = Throw
            \/ OutOfRange(subarray(checked.signature, 32, 64))
            \/ checked.signature = alloc(64, 0))
               => checked.res = "false"

\* verify was given 64 and 32 bytes, R and the public key decode, and s is
\* above the order of the group
C2_Witness ==
    /\ checked.op = "verify"
    /\ Len(checked.signature) = 64
    /\ Len(checked.publicKey) = 32
    /\ Point_fromBytes(subarray(checked.signature, 0, 32)) # Throw
    /\ Point_fromBytes(checked.publicKey) # Throw
    /\ Fn_fromBytes(subarray(checked.signature, 32, 64)) = Throw
    /\ checked.res = "false"

(***************************************************************************)
(* Key pairs are generated and validateKeyPair is called on the public key *)
(* of one and the secret key of one, as in test('validate key pair'), or   *)
(* on malformed fields.                                                    *)
(***************************************************************************)
AnySecretKeys ==
    {<<>>, subarray(LE32(1), 0, 31)} \cup {f \o LE32(0) : f \in Fields}

validateKeyPairCall ==
    /\ checked.op = "none"
    /\ \E publicKey \in {kp.publicKey : kp \in keys} \cup AnyPublicKeys,
          secretKey \in {kp.secretKey : kp \in keys} \cup AnySecretKeys :
        checked' = [op |-> "validateKeyPair",
                    message |-> <<>>,
                    signature |-> <<>>,
                    publicKey |-> publicKey,
                    secretKey |-> secretKey,
                    res |-> validateKeyPair([publicKey |-> publicKey,
                                             secretKey |-> secretKey])]
    /\ UNCHANGED <<keys, signed, sealed, opened, hashed, merkle, spaces>>

KeysNext == keyPairCall \/ validateKeyPairCall

SpecKeys == Init /\ [][KeysNext]_vars

\* C5: validateKeyPair is true for a key pair of keyPair, false for the
\* public key of one pair with the secret key of another, and false, never
\* an exception, when the first 32 bytes of secretKey are no usable scalar
\* or a field is malformed.
C5_ValidateKeyPair ==
    checked.op = "validateKeyPair" =>
        LET scalar == subarray(checked.secretKey, 0, 32)
        IN  /\ checked.res \in {"true", "false"}
            /\ [publicKey |-> checked.publicKey,
                secretKey |-> checked.secretKey] \in keys
                   => checked.res = "true"
            /\ (\E kp1 \in keys, kp2 \in keys :
                   /\ checked.publicKey = kp1.publicKey
                   /\ checked.secretKey = kp2.secretKey
                   /\ subarray(kp1.secretKey, 0, 32) # scalar)
                   => checked.res = "false"
            /\ (Fn_fromBytes(scalar) = Throw \/ Fn_fromBytes(scalar) = 0)
                   => checked.res = "false"
            /\ Len(checked.publicKey) # 32 => checked.res = "false"

\* validateKeyPair was given the public key of one held key pair and the
\* secret key of another
C5_Witness ==
    /\ checked.op = "validateKeyPair"
    /\ checked.res = "false"
    /\ \E kp1 \in keys, kp2 \in keys :
           /\ kp1 # kp2
           /\ checked.publicKey = kp1.publicKey
           /\ checked.secretKey = kp2.secretKey

(***************************************************************************)
(* An encryption session: key pairs are generated, a message is encrypted  *)
(* to the public key of one, and the ciphertext is decrypted.              *)
(***************************************************************************)
PlainLens == (0..MaxMsgLen) \cup {32 + k : k \in 0..MaxMsgLen}

PlainTexts ==
    {[j \in 1..n |-> Raw(v + j)] : n \in PlainLens, v \in 0..MaxMsgByte}

encryptionKeyPairCall ==
    /\ Cardinality(keys) < MaxKeys
    /\ sealed.state = "none"
    /\ \E seed \in Seeds, rnd \in RandomBytes :
        LET r == encryptionKeyPair(seed, rnd)
        IN  /\ ~r.threw
            /\ keys' = keys \cup {[publicKey |-> r.publicKey,
                                   secretKey |-> r.secretKey]}
            /\ UNCHANGED <<signed, checked, sealed, opened, hashed, merkle,
                           spaces>>

encryptCall ==
    /\ sealed.state = "none"
    /\ \E kp \in keys, message \in PlainTexts, rnd \in RandomBytes :
        LET r == encrypt(message, kp.publicKey, rnd)
        IN  /\ sealed' = [state |-> IF r.threw THEN "throw" ELSE "ok",
                          message |-> message,
                          publicKey |-> kp.publicKey,
                          secretKey |-> kp.secretKey,
                          ephemeralScalar |-> hashToScalar(rnd),
                          ciphertext |-> r.ciphertext]
            /\ UNCHANGED <<keys, signed, checked, opened, hashed, merkle,
                           spaces>>

decryptCall ==
    /\ sealed.state = "ok"
    /\ opened.op = "none"
    /\ \E kp \in keys :
        LET r == decrypt(sealed.ciphertext, kp)
        IN  /\ opened' = [op |-> "decrypt", secretKey |-> kp.secretKey,
                          null |-> r.null, plaintext |-> r.plaintext]
            /\ UNCHANGED <<keys, signed, checked, sealed, hashed, merkle,
                           spaces>>

EncNext ==
    keyPairCall \/ encryptionKeyPairCall \/ encryptCall \/ decryptCall

SpecEnc == Init /\ [][EncNext]_vars

\* the call decrypt(encrypt(m, kp.publicKey), kp) of one key pair
DecryptedByRecipient ==
    /\ sealed.state = "ok"
    /\ opened.op = "decrypt"
    /\ opened.secretKey = sealed.secretKey

====
